---- MODULE Spec2Model ----
(***************************************************************************)
(* Model of script.py: the in-memory GeoNames index (MemDataBase), the     *)
(* comparison service (Service) and the four FastAPI handlers.             *)
(*                                                                         *)
(* Python strings are sequences of one-character strings, so that split,   *)
(* startswith, int() and the lexicographic order of str are computed as    *)
(* Python computes them.  A Python dict is the sequence of its (key,value) *)
(* pairs in insertion order.  An Optional value is None or Some(v).        *)
(***************************************************************************)
EXTENDS Integers, Sequences, FiniteSets, TLC

VARIABLES
    file,           \* the dataset: the parsed lines of RU.txt, in file order
    mem_db,         \* the global mem_db: [up, hashed_db, hashed_db_names]
    resp,           \* the last request served and its response
    inflight,       \* requests accepted by the event loop, not yet served
    delta_minutes,  \* the offset difference handed to the formatter
    delta_str       \* the formatted difference

vars == <<file, mem_db, resp, inflight, delta_minutes, delta_str>>

----------------------------------------------------------------------------
(* Bounds *)

MaxLines == 3
MaxInflight == 2
MaxDelta == 1560

(* Program constants *)

MaxLimit == 1000

----------------------------------------------------------------------------
(* Python built-ins used by the code *)

None == [some |-> FALSE]
Some(v) == [some |-> TRUE, val |-> v]

Min(a, b) == IF a <= b THEN a ELSE b
Max(a, b) == IF a >= b THEN a ELSE b
Abs(n) == IF n >= 0 THEN n ELSE -n

\* ord(c) for the characters that occur in the numeric fields
ord(c) ==
    CASE c = "-" -> 45 [] c = "." -> 46
      [] c = "0" -> 48 [] c = "1" -> 49 [] c = "2" -> 50 [] c = "3" -> 51
      [] c = "4" -> 52 [] c = "5" -> 53 [] c = "6" -> 54 [] c = "7" -> 55
      [] c = "8" -> 56 [] c = "9" -> 57

\* int(s) for a string of decimal digits
RECURSIVE int(_)
int(s) ==
    IF Len(s) = 0 THEN 0
    ELSE 10 * int(SubSeq(s, 1, Len(s) - 1)) + (ord(s[Len(s)]) - 48)

\* s1 >= s2 on str: lexicographic by code point, a proper prefix is smaller
RECURSIVE StrGE(_, _)
StrGE(s1, s2) ==
    IF Len(s2) = 0 THEN TRUE
    ELSE IF Len(s1) = 0 THEN FALSE
    ELSE IF ord(s1[1]) # ord(s2[1]) THEN ord(s1[1]) > ord(s2[1])
    ELSE StrGE(Tail(s1), Tail(s2))

\* s.split(sep): the pieces between the separators, empty pieces included
RECURSIVE split(_, _)
split(s, sep) ==
    IF \A i \in 1..Len(s) : s[i] # sep THEN <<s>>
    ELSE LET i == CHOOSE j \in 1..Len(s) :
                      s[j] = sep /\ \A k \in 1..(j - 1) : s[k] # sep
         IN  <<SubSeq(s, 1, i - 1)>> \o split(SubSeq(s, i + 1, Len(s)), sep)

\* s.startswith(p)
startswith(s, p) == Len(p) <= Len(s) /\ SubSeq(s, 1, Len(p)) = p

\* s[start:stop] with Python's treatment of negative and out-of-range bounds
PySlice(s, start, stop) ==
    LET n  == Len(s)
        lo == IF start < 0 THEN Max(start + n, 0) ELSE Min(start, n)
        hi == IF stop < 0 THEN Max(stop + n, 0) ELSE Min(stop, n)
    IN  SubSeq(s, lo + 1, hi)

\* dict operations; a dict is <<  <<k1, v1>>, <<k2, v2>>, ... >>
DictHas(d, k) == \E i \in 1..Len(d) : d[i][1] = k
DictGet(d, k) ==
    IF DictHas(d, k)
    THEN Some(d[CHOOSE i \in 1..Len(d) : d[i][1] = k][2])
    ELSE None
DictSet(d, k, v) ==
    IF DictHas(d, k)
    THEN [i \in 1..Len(d) |-> IF d[i][1] = k THEN <<k, v>> ELSE d[i]]
    ELSE Append(d, <<k, v>>)
DictKeys(d) == [i \in 1..Len(d) |-> d[i][1]]
DictValues(d) == [i \in 1..Len(d) |-> d[i][2]]

\* the sort key of init_hased_names: lambda gi: int(gi.population)
PopulationKey(gi) == int(gi.population)

\* sorted(s, key=PopulationKey): stable, ascending
RECURSIVE InsertSorted(_, _)
InsertSorted(s, x) ==
    IF Len(s) = 0 THEN <<x>>
    ELSE IF PopulationKey(s[Len(s)]) <= PopulationKey(x) THEN Append(s, x)
    ELSE Append(InsertSorted(SubSeq(s, 1, Len(s) - 1), x), s[Len(s)])

RECURSIVE sorted(_)
sorted(s) ==
    IF Len(s) = 0 THEN <<>>
    ELSE InsertSorted(sorted(SubSeq(s, 1, Len(s) - 1)), s[Len(s)])

----------------------------------------------------------------------------
(* The dataset: each line split at the tabs into the fields of GeoInfo.    *)
(* Only the fields the program reads are kept.  Every field is text.       *)

GeoInfo(geonameid, alternatenames, latitude, feature_class, population, timezone) ==
    [geonameid      |-> geonameid,
     alternatenames |-> alternatenames,
     latitude       |-> latitude,
     feature_class  |-> feature_class,
     population     |-> population,
     timezone       |-> timezone]

Lines ==
    { GeoInfo(<<"1">>, <<"M","o",",","M","s">>, <<"5","5",".","7">>,
              "P", <<"1","0">>, "Europe/Moscow"),
      GeoInfo(<<"2">>, <<"S",",","M","o">>, <<"9",".","5">>,
              "P", <<"5">>, "Asia/Kathmandu"),
      GeoInfo(<<"3">>, <<"M","o">>, <<"5","5",".","7">>,
              "P", <<"1","0">>, "Europe/Berlin"),
      GeoInfo(<<"2">>, <<"M","o",",","M","t">>, <<"6","0",".","0">>,
              "T", <<"9","9">>, "Europe/Moscow"),
      GeoInfo(<<"1">>, <<"S",",","S">>, <<"-","5",".","0">>,
              "P", <<"7">>, "America/St_Johns"),
      GeoInfo(<<"5">>, <<>>, <<"-","1","0",".","0">>,
              "P", <<"0">>, "UTC") }

Datasets == UNION { [1..n -> Lines] : n \in 0..MaxLines }

----------------------------------------------------------------------------
(* MemDataBase *)

\* variant: no feature-class filter
RECURSIVE init_db_nofilter(_)
init_db_nofilter(lines) ==
    IF Len(lines) = 0 THEN <<>>
    ELSE DictSet(init_db_nofilter(SubSeq(lines, 1, Len(lines) - 1)),
                 int(lines[Len(lines)].geonameid), lines[Len(lines)])

RECURSIVE init_db(_)
init_db(lines) ==
    IF Len(lines) = 0 THEN <<>>
    ELSE LET db       == init_db(SubSeq(lines, 1, Len(lines) - 1))
             geo_item == lines[Len(lines)]
         IN  IF geo_item.feature_class = "P"
             THEN DictSet(db, int(geo_item.geonameid), geo_item)
             ELSE db

\* variant: geo_item appended to the list of each of its names
RECURSIVE AddNames_append(_, _, _)
AddNames_append(hashed_names, geo_item, names) ==
    IF Len(names) = 0 THEN hashed_names
    ELSE LET name == names[1]
             old  == DictGet(hashed_names, name)
             lst  == (IF old.some THEN old.val ELSE <<>>) \o <<geo_item>>
         IN  AddNames_append(DictSet(hashed_names, name, lst), geo_item, Tail(names))

\* the inner loop: prepend geo_item to the list of each of its names
RECURSIVE AddNames(_, _, _)
AddNames(hashed_names, geo_item, names) ==
    IF Len(names) = 0 THEN hashed_names
    ELSE LET name == names[1]
             old  == DictGet(hashed_names, name)
             lst  == <<geo_item>> \o (IF old.some THEN old.val ELSE <<>>)
         IN  AddNames(DictSet(hashed_names, name, lst), geo_item, Tail(names))

RECURSIVE AddItems(_, _)
AddItems(hashed_names, items) ==
    IF Len(items) = 0 THEN hashed_names
    ELSE AddItems(AddNames(hashed_names, items[1],
                           split(items[1].alternatenames, ",")),
                  Tail(items))

init_hased_names(db) == AddItems(<<>>, sorted(DictValues(db)))

MemDataBase(f) ==
    LET db == init_db(f)
    IN  [up |-> TRUE, hashed_db |-> db, hashed_db_names |-> init_hased_names(db)]

get_by_id(db, id) == DictGet(db.hashed_db, id)

\* variant: the slice ends at limit instead of skip + limit
get_list_noskip(db, skip, limit) == PySlice(DictValues(db.hashed_db), skip, limit)

get_list(db, skip, limit) == PySlice(DictValues(db.hashed_db), skip, skip + limit)

get_by_name(db, name) == DictGet(db.hashed_db_names, name)

\* variant: name_part in name instead of name.startswith(name_part)
get_name_help_contains(db, name_part, limit) ==
    PySlice(SelectSeq(DictKeys(db.hashed_db_names),
                      LAMBDA name : \E i \in 0..(Len(name) - Len(name_part)) :
                                        SubSeq(name, i + 1, i + Len(name_part)) = name_part),
            0, limit)

get_name_help(db, name_part, limit) ==
    PySlice(SelectSeq(DictKeys(db.hashed_db_names),
                      LAMBDA name : startswith(name, name_part)),
            0, limit)

----------------------------------------------------------------------------
(* Service *)

\* wall-clock values of datetime.now(), none of them skipped or repeated in
\* any zone: Europe/Berlin is on summer time from 29 Mar to 25 Oct 2026,
\* America/St_Johns from 8 Mar to 1 Nov 2026, the other zones never
Instants == {"2026-01-15", "2026-03-15", "2026-07-15", "2026-10-29"}

\* pytz.timezone(tz).utcoffset(dt), in minutes
utcoffset(tz, dt) ==
    CASE tz = "Europe/Moscow"    -> 180
      [] tz = "Asia/Kathmandu"   -> 345
      [] tz = "Europe/Berlin"    -> IF dt = "2026-07-15" THEN 120 ELSE 60
      [] tz = "America/St_Johns" -> IF dt = "2026-01-15" THEN -210 ELSE -150
      [] tz = "UTC"              -> 0

\* f"{n:02}" for n >= 0
Pad2(n) == IF n < 10 THEN "0" \o ToString(n) ELSE ToString(n)

\* delta_str as built from delta_minutes: int() truncates toward zero,
\* % takes the sign of the divisor
FormatDelta(delta) ==
    (IF delta >= 0 THEN "+" ELSE "-")
        \o Pad2(Abs(delta) \div 60) \o ":"
        \o Pad2(Abs(delta % 60))

timezone_diff(tz1, tz2, dt) ==
    LET delta == utcoffset(tz1, dt) - utcoffset(tz2, dt)
    IN  <<delta, FormatDelta(delta)>>

\* variant: the latitude of the first record compared with itself
get_diff_info_samelat(name_1, name_2, db, dt) ==
    LET l_1 == get_by_name(db, name_1)
        l_2 == get_by_name(db, name_2)
    IN  IF l_1 = None \/ l_2 = None THEN None
        ELSE LET gi_1 == l_1.val[1]
                 gi_2 == l_2.val[1]
                 td   == timezone_diff(gi_1.timezone, gi_2.timezone, dt)
             IN  Some([north         |-> IF StrGE(gi_1.latitude, gi_1.latitude)
                                         THEN name_1 ELSE name_2,
                       is_same_time  |-> td[1] = 0,
                       timezone_diff |-> td[2],
                       name_1        |-> gi_1,
                       name_2        |-> gi_2])

get_diff_info(name_1, name_2, db, dt) ==
    LET l_1 == get_by_name(db, name_1)
        l_2 == get_by_name(db, name_2)
    IN  IF l_1 = None \/ l_2 = None THEN None
        ELSE LET gi_1 == l_1.val[1]
                 gi_2 == l_2.val[1]
                 td   == timezone_diff(gi_1.timezone, gi_2.timezone, dt)
             IN  Some([north         |-> IF StrGE(gi_1.latitude, gi_2.latitude)
                                         THEN name_1 ELSE name_2,
                       is_same_time  |-> td[1] = 0,
                       timezone_diff |-> td[2],
                       name_1        |-> gi_1,
                       name_2        |-> gi_2])

----------------------------------------------------------------------------
(* The request handlers.  A response records the status, the body and the  *)
(* MemDataBase method the handler called ("none" when it raised before).   *)

\* the chained comparison 0 > limit > 1000
LimitRejected(limit) == 0 > limit /\ limit > MaxLimit

HTTPException(code) == [status |-> code, called |-> "none"]

info(db, id) ==
    IF id < 0 THEN HTTPException(400)
    ELSE LET res == get_by_id(db, id)
         IN  IF res = None
             THEN [status |-> 404, called |-> "get_by_id"]
             ELSE [status |-> 200, called |-> "get_by_id", body |-> res.val]

pagination(db, page, limit) ==
    IF page < 0 \/ LimitRejected(limit) THEN HTTPException(400)
    ELSE [status |-> 200, called |-> "get_list",
          body |-> get_list(db, page * limit, limit)]

diff(db, name_1, name_2, dt) ==
    LET res == get_diff_info(name_1, name_2, db, dt)
    IN  IF res = None
        THEN [status |-> 404, called |-> "get_by_name"]
        ELSE [status |-> 200, called |-> "get_by_name", body |-> res.val]

help(db, name_part, limit) ==
    IF name_part = <<>> \/ LimitRejected(limit) THEN HTTPException(400)
    ELSE [status |-> 200, called |-> "get_name_help",
          body |-> get_name_help(db, name_part, limit)]

----------------------------------------------------------------------------
(* Request parameters *)

Ids == {-1, 1, 2, 9}
Pages == {-1, 0, 1}
Limits == {-1, 0, 1, 2, MaxLimit, MaxLimit + 1}
Names == { <<"M","o">>, <<"M","s">>, <<"S">>, <<>>, <<"X">> }
NameParts == { <<>>, <<"M">>, <<"M","o">>, <<"S">>, <<"o">>, <<"X">> }

InfoReq(id) == [kind |-> "info", id |-> id]
PaginationReq(page, limit) == [kind |-> "pagination", page |-> page, limit |-> limit]
DiffReq(name_1, name_2) == [kind |-> "diff", name_1 |-> name_1, name_2 |-> name_2]
HelpReq(name_part, limit) == [kind |-> "help", name_part |-> name_part, limit |-> limit]

NoReq == [kind |-> "none"]

\* the requests of the concurrent clients
ConcRequests ==
    { InfoReq(1), InfoReq(9),
      PaginationReq(0, 2), PaginationReq(1, 1),
      DiffReq(<<"M","o">>, <<"S">>), DiffReq(<<"M","s">>, <<"M","o">>),
      HelpReq(<<"M">>, 1), HelpReq(<<"S">>, MaxLimit) }

----------------------------------------------------------------------------
(* Actions *)

Init ==
    /\ file \in Datasets
    /\ mem_db = [up |-> FALSE]
    /\ resp = [req |-> NoReq]
    /\ inflight = {}
    /\ delta_minutes = 0
    /\ delta_str = ""

\* the startup event
db_up ==
    /\ ~mem_db.up
    /\ mem_db' = MemDataBase(file)
    /\ UNCHANGED <<file, resp, inflight, delta_minutes, delta_str>>

\* variant: the handler takes the record out of the index (dict.pop)
InfoRequest_pop(id) ==
    /\ mem_db.up
    /\ resp' = [req |-> InfoReq(id), res |-> info(mem_db, id)]
    /\ mem_db' = [mem_db EXCEPT !.hashed_db =
                      SelectSeq(mem_db.hashed_db, LAMBDA kv : kv[1] # id)]
    /\ UNCHANGED <<file, delta_minutes, delta_str>>

InfoRequest(id) ==
    /\ mem_db.up
    /\ resp' = [req |-> InfoReq(id), res |-> info(mem_db, id)]
    /\ UNCHANGED <<file, mem_db, delta_minutes, delta_str>>

PaginationRequest(page, limit) ==
    /\ mem_db.up
    /\ resp' = [req |-> PaginationReq(page, limit),
                res |-> pagination(mem_db, page, limit)]
    /\ UNCHANGED <<file, mem_db, delta_minutes, delta_str>>

DiffRequest(name_1, name_2) ==
    /\ mem_db.up
    /\ \E dt \in Instants :
           resp' = [req |-> DiffReq(name_1, name_2),
                    res |-> diff(mem_db, name_1, name_2, dt)]
    /\ UNCHANGED <<file, mem_db, delta_minutes, delta_str>>

HelpRequest(name_part, limit) ==
    /\ mem_db.up
    /\ resp' = [req |-> HelpReq(name_part, limit),
                res |-> help(mem_db, name_part, limit)]
    /\ UNCHANGED <<file, mem_db, delta_minutes, delta_str>>

\* requests served one at a time
Info == \E id \in Ids : InfoRequest(id) /\ UNCHANGED inflight

Pagination ==
    \E page \in Pages, limit \in Limits :
        PaginationRequest(page, limit) /\ UNCHANGED inflight

Diff ==
    \E name_1 \in Names, name_2 \in Names :
        DiffRequest(name_1, name_2) /\ UNCHANGED inflight

Help ==
    \E name_part \in NameParts, limit \in Limits :
        HelpRequest(name_part, limit) /\ UNCHANGED inflight

Next == db_up \/ Info \/ Pagination \/ Diff \/ Help

Spec == Init /\ [][Next]_vars

\* concurrent requests: the event loop accepts requests at any time and runs
\* the handler coroutines, which never await, one whole handler at a time
Accept ==
    /\ mem_db.up
    /\ Cardinality(inflight) < MaxInflight
    /\ \E r \in ConcRequests : r \notin inflight /\ inflight' = inflight \cup {r}
    /\ UNCHANGED <<file, mem_db, resp, delta_minutes, delta_str>>

RunInfo ==
    \E r \in inflight :
        /\ r.kind = "info"
        /\ InfoRequest(r.id)
        /\ inflight' = inflight \ {r}

RunPagination ==
    \E r \in inflight :
        /\ r.kind = "pagination"
        /\ PaginationRequest(r.page, r.limit)
        /\ inflight' = inflight \ {r}

RunDiff ==
    \E r \in inflight :
        /\ r.kind = "diff"
        /\ DiffRequest(r.name_1, r.name_2)
        /\ inflight' = inflight \ {r}

RunHelp ==
    \E r \in inflight :
        /\ r.kind = "help"
        /\ HelpRequest(r.name_part, r.limit)
        /\ inflight' = inflight \ {r}

NextConc == db_up \/ Accept \/ RunInfo \/ RunPagination \/ RunDiff \/ RunHelp

SpecConc == Init /\ [][NextConc]_vars

\* the formatter of timezone_diff on every difference in range
InitFmt ==
    /\ file = <<>>
    /\ mem_db = [up |-> FALSE]
    /\ resp = [req |-> NoReq]
    /\ inflight = {}
    /\ delta_minutes \in (-MaxDelta)..MaxDelta
    /\ delta_str = ""

Format ==
    /\ delta_str = ""
    /\ delta_str' = FormatDelta(delta_minutes)
    /\ UNCHANGED <<file, mem_db, resp, inflight, delta_minutes>>

NextFmt == Format

SpecFmt == InitFmt /\ [][NextFmt]_vars

----------------------------------------------------------------------------
(* Vocabulary of the properties *)

Range(s) == { s[i] : i \in 1..Len(s) }

Retained == Range(DictValues(mem_db.hashed_db))
IndexedNames == Range(DictKeys(mem_db.hashed_db_names))
NameList(name) == DictGet(mem_db.hashed_db_names, name).val
AlternateNames(gi) == Range(split(gi.alternatenames, ","))
Population(gi) == int(gi.population)

\* the record a name resolves to in a comparison
Resolved(name) == get_diff_info(name, name, mem_db, "2026-01-15").val.name_1

\* the retained records in the order of the stable ascending-population sort
SortedRetained == sorted(DictValues(mem_db.hashed_db))

LastListing(name) ==
    SortedRetained[CHOOSE i \in 1..Len(SortedRetained) :
        /\ name \in AlternateNames(SortedRetained[i])
        /\ \A j \in (i + 1)..Len(SortedRetained) :
               name \notin AlternateNames(SortedRetained[j])]

\* the value of a latitude field as a number, in thousandths of a degree
Pow10(k) == CASE k = 0 -> 1 [] k = 1 -> 10 [] k = 2 -> 100 [] k = 3 -> 1000

NumericLatitude(s) ==
    LET neg    == Len(s) > 0 /\ s[1] = "-"
        digits == IF neg THEN Tail(s) ELSE s
        parts  == split(digits, ".")
        whole  == int(parts[1])
        frac   == IF Len(parts) > 1 THEN parts[2] ELSE <<>>
        mag    == whole * 1000 + int(frac) * Pow10(3 - Len(frac))
    IN  IF neg THEN -mag ELSE mag

ValidLimits == { l \in Limits : 0 < l /\ l <= MaxLimit }

IsPrefix(p, s) == Len(p) <= Len(s) /\ \A i \in 1..Len(p) : s[i] = p[i]

\* two decimal digits of n, 0 <= n < 100
TwoDigits(n) == ToString(n \div 10) \o ToString(n % 10)

----------------------------------------------------------------------------
(* Properties *)

\* C1: every indexed name resolves to a retained record that lists the name
\* and has the maximum population among the retained records listing it; on
\* a tie it is the one the stable ascending-population sort places last.
C1_ResolvesMostPopulous ==
    mem_db.up =>
        \A name \in IndexedNames :
            /\ Resolved(name) \in Retained
            /\ name \in AlternateNames(Resolved(name))
            /\ \A gi \in Retained :
                   name \in AlternateNames(gi) =>
                       Population(gi) <= Population(Resolved(name))
            /\ Resolved(name) = LastListing(name)

\* a comparison was served for a name listed by three retained records, two
\* of which tie for the maximum population
C1_Witness ==
    /\ resp.req.kind = "diff"
    /\ resp.res.status = 200
    /\ Len(NameList(resp.req.name_1)) >= 3
    /\ Population(NameList(resp.req.name_1)[1]) = Population(NameList(resp.req.name_1)[2])
    /\ Population(NameList(resp.req.name_1)[3]) < Population(NameList(resp.req.name_1)[1])
    /\ resp.res.body.name_1 = NameList(resp.req.name_1)[1]

\* C2: a paginate or prefix-search request whose limit is outside
\* 0 < limit <= 1000 ends in a bad-request error and reaches neither get_list
\* nor get_name_help.
C2_LimitOutOfRangeRejected ==
    (resp.req.kind \in {"pagination", "help"}
        /\ (resp.req.limit <= 0 \/ resp.req.limit > MaxLimit))
    => (resp.res.status = 400 /\ resp.res.called = "none")

\* C3: the formatted difference is the sign ('+' iff d >= 0), then |d| div 60
\* and |d| mod 60, two digits each.
C3_SignedHHMM ==
    delta_str # "" =>
        delta_str = (IF delta_minutes >= 0 THEN "+" ELSE "-")
                        \o TwoDigits(Abs(delta_minutes) \div 60) \o ":"
                        \o TwoDigits(Abs(delta_minutes) % 60)

North(a, b, dt) == get_diff_info(a, b, mem_db, dt).val.north

\* C4 as stated: for every pair of resolvable names, equal latitudes
\* included, compare(a, b).north = compare(b, a).north.
C4_NorthSymmetricAlways ==
    mem_db.up =>
        \A a \in IndexedNames, b \in IndexedNames, dt \in Instants :
            North(a, b, dt) = North(b, a, dt)

\* C4 amended: for every pair of resolvable names that are equal or whose
\* resolved records have different latitude fields,
\* compare(a, b).north = compare(b, a).north.
C4_NorthSymmetric ==
    mem_db.up =>
        \A a \in IndexedNames, b \in IndexedNames, dt \in Instants :
            (a = b \/ Resolved(a).latitude # Resolved(b).latitude)
                => North(a, b, dt) = North(b, a, dt)

\* a comparison of two different names whose records differ in latitude was
\* served, and the second name is the northern one
C4_Witness ==
    /\ resp.req.kind = "diff"
    /\ resp.res.status = 200
    /\ resp.req.name_1 # resp.req.name_2
    /\ resp.res.body.name_1.latitude # resp.res.body.name_2.latitude
    /\ resp.res.body.north = resp.req.name_2

\* C5: north is name1 exactly when the numeric latitude of name1's record is
\* greater than or equal to that of name2's record, and name2 otherwise.
C5_NorthByNumericLatitude ==
    (resp.req.kind = "diff" /\ resp.res.status = 200) =>
        resp.res.body.north =
            IF NumericLatitude(resp.res.body.name_1.latitude)
                   >= NumericLatitude(resp.res.body.name_2.latitude)
            THEN resp.req.name_1 ELSE resp.req.name_2

\* C6: every record of the primary index and of every list of the name index
\* has feature class "P"; a line with another feature class is in neither.
C6_OnlyPopulatedPlaces ==
    mem_db.up =>
        /\ \A gi \in Retained : gi.feature_class = "P"
        /\ \A name \in IndexedNames :
               \A gi \in Range(NameList(name)) : gi.feature_class = "P"
        /\ \A i \in 1..Len(file) :
               file[i].feature_class # "P" =>
                   /\ file[i] \notin Retained
                   /\ \A name \in IndexedNames : file[i] \notin Range(NameList(name))

\* the indices were built from a dataset that has a populated place and a
\* line of another feature class
C6_Witness ==
    /\ mem_db.up
    /\ Retained # {}
    /\ IndexedNames # {}
    /\ \E i \in 1..Len(file) : file[i].feature_class # "P"

PrimaryOrder == DictValues(mem_db.hashed_db)

PageAt(skip, limit) ==
    [i \in 1..Min(limit, Max(0, Len(PrimaryOrder) - skip)) |-> PrimaryOrder[skip + i]]

\* C7: for skip >= 0 and 0 < limit <= 1000, get_list(skip, limit) is the
\* records at positions skip .. skip+limit-1 of the primary index's order:
\* its length is min(limit, max(0, T - skip)), it is empty when skip >= T,
\* and get_list(0, N) followed by get_list(N, M) is get_list(0, N + M).
C7_PageIsSlice ==
    mem_db.up =>
        /\ \A skip \in 0..(MaxLines + 1), limit \in ValidLimits :
               /\ get_list(mem_db, skip, limit) = PageAt(skip, limit)
               /\ skip >= Len(PrimaryOrder) => get_list(mem_db, skip, limit) = <<>>
        /\ \A n \in 1..MaxLines, m \in 1..MaxLines :
               get_list(mem_db, 0, n) \o get_list(mem_db, n, m)
                   = get_list(mem_db, 0, n + m)
        /\ (resp.req.kind = "pagination" /\ resp.req.page >= 0
                /\ resp.req.limit \in ValidLimits)
           => resp.res.body = PageAt(resp.req.page * resp.req.limit, resp.req.limit)

\* a later page was served that is not empty and shorter than the limit
C7_Witness ==
    /\ resp.req.kind = "pagination"
    /\ resp.res.status = 200
    /\ resp.req.page > 0
    /\ resp.req.limit \in ValidLimits
    /\ Len(resp.res.body) > 0
    /\ Len(resp.res.body) < resp.req.limit

Matching(p) == { k \in IndexedNames : IsPrefix(p, k) }

\* C8: for a non-empty prefix p and 0 < limit <= 1000, get_name_help(p, limit)
\* is a list of pairwise distinct keys of the name index that start with p,
\* of length at most limit, empty exactly when no key starts with p.
C8_PrefixSearch ==
    mem_db.up =>
        \A p \in NameParts \ {<<>>}, limit \in ValidLimits :
            LET r == get_name_help(mem_db, p, limit)
            IN  /\ \A i \in 1..Len(r) : r[i] \in Matching(p)
                /\ \A i \in 1..Len(r), j \in 1..Len(r) : r[i] = r[j] => i = j
                /\ Len(r) <= limit
                /\ (Len(r) = 0) <=> (Matching(p) = {})

\* a prefix search was served that had more matching keys than the limit,
\* while some key of the index does not start with the prefix
C8_Witness ==
    /\ resp.req.kind = "help"
    /\ resp.res.status = 200
    /\ resp.req.name_part # <<>>
    /\ resp.req.limit \in ValidLimits
    /\ Len(resp.res.body) = resp.req.limit
    /\ Cardinality(Matching(resp.req.name_part)) > resp.req.limit
    /\ IndexedNames \ Matching(resp.req.name_part) # {}

Fresh == MemDataBase(file)

AloneResults(r) ==
    CASE r.kind = "info"       -> {info(Fresh, r.id)}
      [] r.kind = "pagination" -> {pagination(Fresh, r.page, r.limit)}
      [] r.kind = "diff"       -> {diff(Fresh, r.name_1, r.name_2, dt) : dt \in Instants}
      [] r.kind = "help"       -> {help(Fresh, r.name_part, r.limit)}

\* C9: once startup has built the indices, no step of any interleaving of
\* concurrent requests changes them, they equal the indices built from the
\* dataset, and every response is the one the request gets alone against
\* the freshly built indices.
C9_IndicesImmutable ==
    /\ [][mem_db.up => mem_db' = mem_db]_vars
    /\ [](mem_db.up =>
            /\ mem_db = Fresh
            /\ resp.req.kind # "none" => resp.res \in AloneResults(resp.req))

\* a request was served while two other requests were in flight
C9_Witness ==
    /\ resp.req.kind = "diff"
    /\ resp.res.status = 200
    /\ Cardinality(inflight) >= 2
    /\ \E r \in inflight : r.kind = "info"

\* C10: the records under every key of the name index are in
\* ascending order of population, the last one a most populous.
C10_ListsAscending ==
    mem_db.up =>
        \A name \in IndexedNames :
            \A i \in 1..(Len(NameList(name)) - 1) :
                Population(NameList(name)[i]) <= Population(NameList(name)[i + 1])

====
